---- MODULE Spec2Model ----
(***************************************************************************)
(* Model of the carbon-footprint tool (src/App.tsx): the React state of    *)
(* the App component, its event handlers and effects, and the derived      *)
(* CalculationResult.                                                       *)
(*                                                                         *)
(* Numbers.  JavaScript numbers are modelled as exact rationals            *)
(* [n |-> numerator, d |-> denominator > 0] in lowest terms.  The values   *)
(* the model enters are chosen so that no quantity handed to toFixed(4)    *)
(* lies on a rounding tie, where binary floating point and exact           *)
(* arithmetic could round differently.                                     *)
(*                                                                         *)
(* Text typed into <input type="number"> is kept by the handlers as the    *)
(* string e.target.value; the model keeps the string and converts it with  *)
(* Number() where the code does.  The number 0 that the constructors put   *)
(* in these fields is written "0": the fields are only ever read through  *)
(* Number(), and Number(0) = Number("0").                                  *)
(***************************************************************************)
EXTENDS Integers, Sequences, FiniteSets, TLC

VARIABLES
    materialDB,        \* useState<MaterialDBItem[]>           App.tsx:50
    isDbLoading,       \* useState(false)                      App.tsx:51
    dbError,           \* useState<string | null>(null)        App.tsx:52
    contracts,         \* useState<Contract[]>                 App.tsx:54
    activeContractId,  \* useState<number>(1)                  App.tsx:57
    activeProductId,   \* useState<number | null>(null)        App.tsx:58
    confirmConfig,     \* useState({isOpen, ..., onConfirm})   App.tsx:60
    fetchPc,           \* position of the mount effects and of fetchSheetData
    response,          \* what the request for the sheet came back with
    now,               \* the value Date.now() returns
    calculation,       \* useMemo<CalculationResult>           App.tsx:272
    lastOp             \* the onConfirm that ran last, if the last step was one (history)

vars == <<materialDB, isDbLoading, dbError, contracts, activeContractId,
          activeProductId, confirmConfig, fetchPc, response, now, calculation,
          lastOp>>

(***************************************************************************)
(* Bounds of the model.                                                    *)
(***************************************************************************)
\* contracts in the list
MaxContracts == 2
\* products, material rows and transport rows, counted over all contracts
MaxRows == 3
\* the same count in the specification of the product editor
MaxEditorRows == 5
\* milliseconds the clock advances
MaxTicks == 1
\* contracts, products, material rows and transport rows of a session
MaxObjects == 3
\* contracts of the sidebar, and products counted over all of them
MaxSidebarContracts == 3
MaxSidebarProducts == 2
\* material rows of the product whose factors are looked up
MaxTableMaterials == 2
\* material rows and transport rows of the product whose transport is entered
MaxLegMaterials == 2
MaxLegs == 2
\* transport rows of the product to which rows are added
MaxAdded == 3
\* material rows and transport rows of the products handed to the calculation
MaxCalcMaterials == 2
MaxCalcTransport == 2

(***************************************************************************)
(* Exact rational arithmetic standing for JavaScript number arithmetic.    *)
(***************************************************************************)
Abs(x) == IF x < 0 THEN -x ELSE x

RECURSIVE Gcd(_, _)
Gcd(a, b) == IF b = 0 THEN a ELSE Gcd(b, a % b)

Rat(n, d) ==
    LET g == Gcd(Abs(n), Abs(d))
        s == IF d < 0 THEN -1 ELSE 1
    IN  [n |-> s * (n \div g), d |-> s * (d \div g)]

Zero == Rat(0, 1)
One == Rat(1, 1)
Thousand == Rat(1000, 1)

RAdd(a, b) ==
    LET l == (a.d \div Gcd(a.d, b.d)) * b.d
    IN  Rat(a.n * (l \div a.d) + b.n * (l \div b.d), l)

RMul(a, b) ==
    LET g1 == Gcd(Abs(a.n), b.d)
        g2 == Gcd(Abs(b.n), a.d)
    IN  Rat((a.n \div g1) * (b.n \div g2), (a.d \div g2) * (b.d \div g1))

\* a / b for b # 0 (JavaScript yields Infinity or NaN for b = 0; the
\* calculation never divides by a zero, see DivisorOf).
RDiv(a, b) == RMul(a, Rat(b.d, b.n))

RIsZero(a) == a.n = 0

\* a <= b, compared through the integer quotients first so that the cross
\* products stay small.
RLe(a, b) == RAdd(a, Rat(-b.n, b.d)).n <= 0

(***************************************************************************)
(* Number(s) for the strings an <input type="number"> can deliver          *)
(* (e.target.value is "" for an empty or invalid field).                   *)
(***************************************************************************)
NumberOf(s) ==
    CASE s = ""       -> Zero
      [] s = "0"      -> Zero
      [] s = "1"      -> Rat(1, 1)
      [] s = "2"      -> Rat(2, 1)
      [] s = "3"      -> Rat(3, 1)
      [] s = "4"      -> Rat(4, 1)
      [] s = "6"      -> Rat(6, 1)
      [] s = "10"     -> Rat(10, 1)
      [] s = "20"     -> Rat(20, 1)
      [] s = "100"    -> Rat(100, 1)
      [] s = "1000"   -> Rat(1000, 1)
      [] s = "-2"     -> Rat(-2, 1)
      [] s = "0.5"    -> Rat(1, 2)
      [] s = "12.5"   -> Rat(25, 2)
      [] s = "0.0001" -> Rat(1, 10000)
      [] s = "0.0002" -> Rat(2, 10000)
      [] s = "0.0003" -> Rat(3, 10000)
      [] s = "3.998"  -> Rat(3998, 1000)
      [] s = "3.9995" -> Rat(39995, 10000)

(***************************************************************************)
(* x.toFixed(4): the decimal string of the integer n for which n / 10^4 is *)
(* closest to x, the larger n on a tie, computed on |x| with the sign put  *)
(* back.  The string is represented by the signed count n of 10^-4 units;  *)
(* Number(x.toFixed(4)) is then n / 10^4.                                  *)
(***************************************************************************)
FixedDigits == 4

RECURSIVE LongDiv(_, _, _, _)
\* k more decimal digits of r / d appended to the digits in acc (r < d).
LongDiv(r, d, k, acc) ==
    IF k = 0 THEN [q |-> acc, r |-> r]
    ELSE LongDiv((r * 10) % d, d, k - 1, acc * 10 + ((r * 10) \div d))

\* toFixed(4) cutting the digits after the fourth instead of rounding
ToFixed4Truncated(x) ==
    LET a == Abs(x.n)
        t == LongDiv(a % x.d, x.d, FixedDigits, a \div x.d)
    IN  IF x.n < 0 THEN -t.q ELSE t.q

ToFixed4(x) ==
    LET a == Abs(x.n)
        t == LongDiv(a % x.d, x.d, FixedDigits, a \div x.d)
        n == IF 2 * t.r >= x.d THEN t.q + 1 ELSE t.q
    IN  IF x.n < 0 THEN -n ELSE n

RECURSIVE Pow10(_)
Pow10(k) == IF k = 0 THEN 1 ELSE 10 * Pow10(k - 1)

NumberOfFixed(n) == Rat(n, Pow10(FixedDigits))

Round4(x) == NumberOfFixed(ToFixed4(x))

(***************************************************************************)
(* Reference tables (src/constants.tsx).                                   *)
(***************************************************************************)
ELECTRICITY_YEARS == {2023, 2024, 2025, 2026}

ELECTRICITY_FACTORS(y) ==
    CASE y = 2023 -> Rat(495, 1000)
      [] y = 2024 -> Rat(494, 1000)
      [] y = 2025 -> Rat(474, 1000)
      [] y = 2026 -> Rat(455, 1000)

FallbackElectricityFactor == Rat(495, 1000)

TRANSPORT_FACTORS ==
    << [id |-> "t1", factor |-> Rat(131, 1000)],
       [id |-> "t2", factor |-> Rat(587, 1000)],
       [id |-> "t3", factor |-> Rat(683, 1000)],
       [id |-> "t4", factor |-> Rat(198, 100)],
       [id |-> "t5", factor |-> Rat(116, 100)] >>

INITIAL_MATERIAL_DB ==
    << [id |-> "m1", factor |-> Rat(67, 10)],
       [id |-> "m2", factor |-> Rat(61, 10)],
       [id |-> "m3", factor |-> Rat(38, 10)] >>


(***************************************************************************)
(* Values of the id fields.  Ids are JavaScript numbers (Date.now()); the  *)
(* two non-numeric values the code stores are given numbers no id can      *)
(* take.                                                                   *)
(***************************************************************************)
\* activeProductId = null
NullId == -1
\* materialId = '' (the string the "add transport" button stores when the
\* product has no material, and the value of the blank <option>)
EmptyString == -2
\* the id of the contract the App starts with
FirstContractId == 1

(***************************************************************************)
(* Array.prototype.find(x => x.id === id) as an index: the first index     *)
(* whose element has the id, 0 when there is none (find returns undefined). *)
(* Array.prototype.filter on the elements is SelectSeq.                    *)
(***************************************************************************)
FindIndex(seq, id) ==
    LET S == {i \in DOMAIN seq : seq[i].id = id}
    IN  IF S = {} THEN 0 ELSE CHOOSE i \in S : \A j \in S : i <= j

\* Array.prototype.filter((_, i) => i !== index), index counted from 1.
RemoveAt(seq, index) ==
    [i \in 1..(Len(seq) - (IF index \in DOMAIN seq THEN 1 ELSE 0)) |->
        IF i < index THEN seq[i] ELSE seq[i + 1]]

(***************************************************************************)
(* calculation (App.tsx:272-306).                                          *)
(***************************************************************************)
\* a missing row taken for a factor of 1: ...?.factor || 1
DbFactorOrOne(db, factorId) ==
    LET i == FindIndex(db, factorId)
    IN  IF i = 0 THEN One ELSE db[i].factor

\* materialDB.find(db => db.id === m.factorId)?.factor || 0
DbFactor(db, factorId) ==
    LET i == FindIndex(db, factorId)
    IN  IF i = 0 THEN Zero ELSE db[i].factor

\* the factor with the two sources exchanged
MaterialFactorExchanged(m, db) ==
    IF m.useDb THEN NumberOf(m.customFactor) ELSE DbFactor(db, m.factorId)

\* the factor of one material entry (line 278)
MaterialFactor(m, db) ==
    IF m.useDb THEN DbFactor(db, m.factorId) ELSE NumberOf(m.customFactor)

\* an unknown vehicle taken for the first one of the table
VehicleFactorOrFirst(vehicleId) ==
    LET i == FindIndex(TRANSPORT_FACTORS, vehicleId)
    IN  TRANSPORT_FACTORS[IF i = 0 THEN 1 ELSE i].factor

\* TRANSPORT_FACTORS.find(vf => vf.id === vehicleId)?.factor || 0
VehicleFactor(vehicleId) ==
    LET i == FindIndex(TRANSPORT_FACTORS, vehicleId)
    IN  IF i = 0 THEN Zero ELSE TRANSPORT_FACTORS[i].factor

\* the fallback of the other lookups: ELECTRICITY_FACTORS[year] || 0
ElectricityFactorOrZero(year) ==
    IF year \in ELECTRICITY_YEARS THEN ELECTRICITY_FACTORS(year) ELSE Zero

\* ELECTRICITY_FACTORS[year] || 0.495
ElectricityFactor(year) ==
    IF year \in ELECTRICITY_YEARS THEN ELECTRICITY_FACTORS(year)
    ELSE FallbackElectricityFactor

RECURSIVE StageALast(_, _, _, _)
\* the entries assigned instead of added: A = Number(m.weight) * factor
StageALast(materials, db, i, A) ==
    IF i > Len(materials) THEN A
    ELSE StageALast(materials, db, i + 1,
                    RMul(NumberOf(materials[i].weight),
                         MaterialFactor(materials[i], db)))

RECURSIVE StageA(_, _, _, _)
\* let A = 0; materials.forEach(m => A += Number(m.weight) * factor)
StageA(materials, db, i, A) ==
    IF i > Len(materials) THEN A
    ELSE StageA(materials, db, i + 1,
                RAdd(A, RMul(NumberOf(materials[i].weight),
                             MaterialFactor(materials[i], db))))

\* the distance defaulted like the output: Number(distance) || 1
TransportEmissionDistanceOrOne(weight, distance, factor) ==
    RMul(RMul(RDiv(NumberOf(weight), Thousand),
              IF RIsZero(NumberOf(distance)) THEN One ELSE NumberOf(distance)),
         factor)

\* the weight taken in kg instead of tonnes
TransportEmissionPerKg(weight, distance, factor) ==
    RMul(RMul(NumberOf(weight), NumberOf(distance)), factor)

\* (Number(weight) / 1000) * Number(distance) * factor  (lines 285, 297)
TransportEmission(weight, distance, factor) ==
    RMul(RMul(RDiv(NumberOf(weight), Thousand), NumberOf(distance)), factor)

RECURSIVE StageB(_, _, _)
\* let B = 0; upstreamTransport.forEach(t => B += ...)
StageB(transport, i, B) ==
    IF i > Len(transport) THEN B
    ELSE StageB(transport, i + 1,
                RAdd(B, TransportEmission(transport[i].weight, transport[i].distance,
                                          VehicleFactor(transport[i].vehicleId))))

\* Math.max(Number(mfg.totalOutput), 1)
DivisorAtLeastOne(totalOutput) ==
    IF NumberOf(totalOutput).n < NumberOf(totalOutput).d THEN One
    ELSE NumberOf(totalOutput)

\* Number(mfg.totalOutput) || 1000
DivisorOrThousand(totalOutput) ==
    IF RIsZero(NumberOf(totalOutput)) THEN Thousand ELSE NumberOf(totalOutput)

\* Number(mfg.totalOutput) || 1
DivisorOf(totalOutput) ==
    IF RIsZero(NumberOf(totalOutput)) THEN One ELSE NumberOf(totalOutput)

\* the usage defaulted like the output: Number(mfg.electricityUsage) || 1
StageCUsageOrOne(p) ==
    LET eFactor == ElectricityFactor(p.year)
        mfg == p.manufacturing
        usage == IF RIsZero(NumberOf(mfg.electricityUsage)) THEN One
                 ELSE NumberOf(mfg.electricityUsage)
    IN  IF mfg.mode = "perUnit" THEN RMul(usage, eFactor)
        ELSE RMul(RDiv(usage, DivisorOf(mfg.totalOutput)), eFactor)

\* lines 288-292
StageC(p) ==
    LET eFactor == ElectricityFactor(p.year)
        mfg == p.manufacturing
    IN  IF mfg.mode = "perUnit"
        THEN RMul(NumberOf(mfg.electricityUsage), eFactor)
        ELSE RMul(RDiv(NumberOf(mfg.electricityUsage), DivisorOf(mfg.totalOutput)),
                  eFactor)

StageD(p) ==
    LET dTrans == p.downstreamTransport
    IN  RAdd(Zero, TransportEmission(dTrans.weight, dTrans.distance,
                                     VehicleFactor(dTrans.vehicleId)))

\* the total summed from the rounded stages
RoundedResultSummed(A, B, C, D) ==
    [A |-> Round4(A), B |-> Round4(B), C |-> Round4(C), D |-> Round4(D),
     total |-> RAdd(RAdd(RAdd(Round4(A), Round4(B)), Round4(C)), Round4(D))]

\* the record returned at lines 299-305
RoundedResult(A, B, C, D) ==
    [A |-> Round4(A), B |-> Round4(B), C |-> Round4(C), D |-> Round4(D),
     total |-> Round4(RAdd(RAdd(RAdd(A, B), C), D))]

\* the override dropped
OverrideResultDropped(p) ==
    [A |-> Zero, B |-> Zero, C |-> Zero, D |-> Zero, total |-> Zero]

\* the record returned at line 274
OverrideResult(p) ==
    [A |-> Zero, B |-> Zero, C |-> Zero, D |-> Zero,
     total |-> NumberOf(p.totalOverride)]

\* the record returned at line 273
NoProductResult == [A |-> Zero, B |-> Zero, C |-> Zero, D |-> Zero, total |-> Zero]

\* calculation for the product p (has = FALSE: activeProduct is undefined)
Calculate(has, p, db) ==
    IF ~has THEN NoProductResult
    ELSE IF p.hasFullData THEN OverrideResult(p)
    ELSE RoundedResult(StageA(p.materials, db, 1, Zero),
                       StageB(p.upstreamTransport, 1, Zero),
                       StageC(p), StageD(p))


(***************************************************************************)
(* transportValidation (App.tsx:255-270): the status object, keyed by the  *)
(* material id, and what the list of section B shows for a material row.   *)
(***************************************************************************)
RECURSIVE WeightInB(_, _, _, _)
\* .filter(t => t.materialId === m.id).reduce((sum, t) => sum + Number(t.weight), 0)
WeightInB(transport, materialId, i, sum) ==
    IF i > Len(transport) THEN sum
    ELSE WeightInB(transport, materialId, i + 1,
                   IF transport[i].materialId = materialId
                   THEN RAdd(sum, NumberOf(transport[i].weight))
                   ELSE sum)

\* diff = weightInB - Number(m.weight)
ValidationDiff(p, m) ==
    LET w == NumberOf(m.weight)
    IN  RAdd(WeightInB(p.upstreamTransport, m.id, 1, Zero), Rat(-w.n, w.d))

\* isValid: diff >= -0.001
IsValid(diff) == RLe(Rat(-1, 1000), diff)

\* status[m.id] = {...} in the order of the rows: the entry of an id is the
\* one written last
LastRowWithId(materials, id) ==
    CHOOSE k \in DOMAIN materials :
        /\ materials[k].id = id
        /\ \A j \in DOMAIN materials : materials[j].id = id => j <= k

TransportValidation(p) ==
    [id \in {p.materials[k].id : k \in DOMAIN p.materials} |->
        [isValid |-> IsValid(ValidationDiff(p, p.materials[LastRowWithId(p.materials, id)]))]]

\* const st = transportValidation[m.id] of the row k of the list (line 617)
ShownValid(p, k) == TransportValidation(p)[p.materials[k].id].isValid

(***************************************************************************)
(* The objects the handlers build.                                         *)
(***************************************************************************)
\* { id, name: '', weight: 0, factorId: '', customFactor: 0, useDb: true }
NewMaterial(id) ==
    [id |-> id, weight |-> "0", factorId |-> "", customFactor |-> "0", useDb |-> TRUE]

\* the Product literal of addProduct and of the mount effect
NewProduct(newId, materialId) ==
    [id |-> newId, year |-> 2024, hasFullData |-> FALSE, totalOverride |-> "0",
     materials |-> <<NewMaterial(materialId)>>,
     upstreamTransport |-> <<>>,
     manufacturing |-> [mode |-> "perUnit", electricityUsage |-> "0",
                        totalOutput |-> "1000"],
     downstreamTransport |-> [weight |-> "0", distance |-> "0", vehicleId |-> "t1"]]

\* a new row that carries 6 kg over 100 km
NewTransportLoaded(id, mId) ==
    [id |-> id, materialId |-> mId, weight |-> "6", distance |-> "100",
     vehicleId |-> "t1"]

\* { id: Date.now(), materialId: mId, weight: 0, distance: 0, vehicleId: 't1' }
NewTransport(id, mId) ==
    [id |-> id, materialId |-> mId, weight |-> "0", distance |-> "0",
     vehicleId |-> "t1"]

(***************************************************************************)
(* activeContract, activeProduct (App.tsx:123-124).                        *)
(***************************************************************************)
ActiveContractIndex(cs, acid) == FindIndex(cs, acid)

ActiveProductIndex(cs, acid, apid) ==
    IF ActiveContractIndex(cs, acid) = 0 THEN 0
    ELSE FindIndex(cs[ActiveContractIndex(cs, acid)].products, apid)

HasActiveProduct(cs, acid, apid) == ActiveProductIndex(cs, acid, apid) # 0

\* defined when HasActiveProduct
ActiveProductOf(cs, acid, apid) ==
    cs[ActiveContractIndex(cs, acid)].products[ActiveProductIndex(cs, acid, apid)]

activeProduct == ActiveProductOf(contracts, activeContractId, activeProductId)

hasActiveProduct == HasActiveProduct(contracts, activeContractId, activeProductId)

\* useMemo(..., [activeProduct, materialDB]): the value after the render
\* that follows a state change
CalculationOf(cs, acid, apid, db) ==
    IF HasActiveProduct(cs, acid, apid)
    THEN Calculate(TRUE, ActiveProductOf(cs, acid, apid), db)
    ELSE NoProductResult

Render ==
    calculation' = CalculationOf(contracts', activeContractId', activeProductId',
                                 materialDB')

(***************************************************************************)
(* Sizes and the clock.                                                    *)
(***************************************************************************)
ProductRows(p) == 1 + Len(p.materials) + Len(p.upstreamTransport)

RECURSIVE ProductsRows(_)
ProductsRows(ps) ==
    IF ps = <<>> THEN 0 ELSE ProductRows(Head(ps)) + ProductsRows(Tail(ps))

RECURSIVE ContractsRows(_)
ContractsRows(cs) ==
    IF cs = <<>> THEN 0 ELSE ProductsRows(Head(cs).products) + ContractsRows(Tail(cs))

LastTick == FirstContractId + 1 + MaxTicks

\* Date.now(): the time of the previous reading or a later one
ClockReadings == {t \in {now, now + 1} : t <= LastTick}

\* the handlers the history tells apart: the three onConfirm closures
Recorded == {"confirmDeleteContract", "confirmDeleteProduct", "confirmDeleteMaterial"}

Done(op) == lastOp' = [op |-> IF op \in Recorded THEN op ELSE "other", removed |-> 0]

(***************************************************************************)
(* State after construction (the useState initial values).                 *)
(***************************************************************************)
\* no response yet; the request or response.text() threw
NoResponse == [status |-> "none", rows |-> <<>>]
Rejected == [status |-> "rejected", rows |-> <<>>]
\* response.text() delivered the data rows
Delivered(rows) == [status |-> "text", rows |-> rows]

ClosedConfirm ==
    [isOpen |-> FALSE, kind |-> "none", contractId |-> 0, productId |-> 0,
     materialIndex |-> 0, materialId |-> 0]

\* setConfirmConfig(prev => ({ ...prev, isOpen: false })).  The onConfirm kept
\* in the closed object cannot run again (ConfirmModal renders nothing when
\* isOpen is false, and every request replaces the object), so the closed
\* object is represented without it.
Closed(config) == ClosedConfirm

Init ==
    /\ materialDB = INITIAL_MATERIAL_DB
    /\ isDbLoading = FALSE
    /\ dbError = "null"
    /\ contracts = << [id |-> FirstContractId, products |-> <<>>] >>
    /\ activeContractId = FirstContractId
    /\ activeProductId = NullId
    /\ confirmConfig = ClosedConfirm
    /\ fetchPc = "unmounted"
    /\ response = NoResponse
    /\ now = FirstContractId + 1
    /\ calculation = NoProductResult
    /\ lastOp = [op |-> "other", removed |-> 0]


(***************************************************************************)
(* The mount effects (App.tsx:68-121) and fetchSheetData.                  *)
(***************************************************************************)
\* `sheet_${index}`
SheetId(index) ==
    CASE index = 0 -> "sheet_0"
      [] index = 1 -> "sheet_1"
      [] index = 2 -> "sheet_2"
      [] index = 3 -> "sheet_3"

NullRow == [id |-> "null", factor |-> Zero]

\* the index counted with the header row: `sheet_${index + 1}`
SheetIdWithHeader(index) == SheetId(index + 1)

\* the id given to the data row of the given index (line 82)
RowId(index) == SheetId(index)

\* the rows mapped and not filtered: the null of a rejected row stays
ParseRowsUnfiltered(rows) ==
    [i \in DOMAIN rows |->
        IF ~rows[i].hasName \/ ~rows[i].isNumber THEN NullRow
        ELSE [id |-> RowId(i - 1), factor |-> rows[i].factor]]

\* rows.slice(1).map(...).filter(item => item !== null).  A row of the
\* response is [hasName, isNumber, factor]: col[1] non-empty, parseFloat(col[2])
\* not NaN, and its value.
ParseRows(rows) ==
    SelectSeq([i \in DOMAIN rows |->
                  IF ~rows[i].hasName \/ ~rows[i].isNumber THEN NullRow
                  ELSE [id |-> RowId(i - 1), factor |-> rows[i].factor]],
              LAMBDA item : item # NullRow)

GoodRow == [hasName |-> TRUE, isNumber |-> TRUE, factor |-> Rat(5, 2)]
BadRow == [hasName |-> TRUE, isNumber |-> FALSE, factor |-> Zero]

\* the data rows of the responses the model delivers
Responses == { <<BadRow>>, <<BadRow, GoodRow>> }

\* the effects run again whenever the first contract is empty
MountWhenEmpty ==
    /\ fetchPc = "unmounted" \/ (Len(contracts) > 0 /\ Len(contracts[1].products) = 0)
    /\ fetchPc' = "pending"
    /\ isDbLoading' = TRUE
    /\ UNCHANGED response
    /\ IF Len(contracts) > 0 /\ Len(contracts[1].products) = 0
       THEN \E newId \in ClockReadings :
               /\ now' = newId
               /\ contracts' = [contracts EXCEPT
                                  ![1].products = <<NewProduct(newId, newId + 1)>>]
               /\ activeProductId' = newId
       ELSE UNCHANGED <<now, contracts, activeProductId>>
    /\ UNCHANGED <<materialDB, dbError, activeContractId, confirmConfig>>
    /\ Done("mount")
    /\ Render

\* both effects of the first render: fetchSheetData up to its first await,
\* then "initialize first product if empty"
Mount ==
    /\ fetchPc = "unmounted"
    /\ fetchPc' = "pending"
    /\ isDbLoading' = TRUE
    /\ UNCHANGED response
    /\ IF Len(contracts) > 0 /\ Len(contracts[1].products) = 0
       THEN \E newId \in ClockReadings :
               /\ now' = newId
               /\ contracts' = [contracts EXCEPT
                                  ![1].products = <<NewProduct(newId, newId + 1)>>]
               /\ activeProductId' = newId
       ELSE UNCHANGED <<now, contracts, activeProductId>>
    /\ UNCHANGED <<materialDB, dbError, activeContractId, confirmConfig>>
    /\ Done("mount")
    /\ Render

\* the parsed rows added to the table instead of replacing it
FetchResolvesMerging ==
    /\ fetchPc = "pending"
    /\ \E rows \in Responses :
          LET parsedData == ParseRows(rows)
          IN  /\ response' = Delivered(rows)
              /\ IF Len(parsedData) > 0
                 THEN materialDB' = materialDB \o parsedData /\ dbError' = "null"
                 ELSE UNCHANGED <<materialDB, dbError>>
    /\ isDbLoading' = FALSE
    /\ fetchPc' = "done"
    /\ UNCHANGED <<contracts, activeContractId, activeProductId, confirmConfig, now>>
    /\ Done("fetchResolves")
    /\ Render

\* the response arrived and was parsed (lines 72-88, 93)
FetchResolves ==
    /\ fetchPc = "pending"
    /\ \E rows \in Responses :
          LET parsedData == ParseRows(rows)
          IN  /\ response' = Delivered(rows)
              /\ IF Len(parsedData) > 0
                 THEN materialDB' = parsedData /\ dbError' = "null"
                 ELSE UNCHANGED <<materialDB, dbError>>
    /\ isDbLoading' = FALSE
    /\ fetchPc' = "done"
    /\ UNCHANGED <<contracts, activeContractId, activeProductId, confirmConfig, now>>
    /\ Done("fetchResolves")
    /\ Render

\* fetch or response.text() rejected (lines 89-93)
FetchRejects ==
    /\ fetchPc = "pending"
    /\ response' = Rejected
    /\ dbError' = "offline"
    /\ isDbLoading' = FALSE
    /\ fetchPc' = "done"
    /\ UNCHANGED <<materialDB, contracts, activeContractId, activeProductId,
                   confirmConfig, now>>
    /\ Done("fetchRejects")
    /\ Render

(***************************************************************************)
(* Event handlers.  The page takes input once it is mounted; the open      *)
(* ConfirmModal covers it (fixed inset-0 overlay), so while it is open      *)
(* only its own two buttons take input.                                    *)
(***************************************************************************)
PageReady == fetchPc # "unmounted" /\ ~confirmConfig.isOpen

ContractIds == {contracts[i].id : i \in DOMAIN contracts}

\* the products arrays of the contracts, and the products in them
ProductLists(cs) == {cs[i].products : i \in DOMAIN cs}

Products(cs) == UNION {{ps[j] : j \in DOMAIN ps} : ps \in ProductLists(cs)}

\* prev.map(c => c.id === contractId ? { ...c, products: F[c.products] } : c),
\* F a function on the products arrays
MapProductsOf(cs, contractId, F) ==
    [i \in DOMAIN cs |->
        IF cs[i].id = contractId THEN [cs[i] EXCEPT !.products = F[cs[i].products]]
        ELSE cs[i]]

\* products.map(p => p.id === productId ? G[p] : p), G a function on the products
MapProduct(ps, productId, G) ==
    [j \in DOMAIN ps |-> IF ps[j].id = productId THEN G[ps[j]] ELSE ps[j]]

\* the setContracts argument shared by updateProduct, updateNested and the
\* onConfirm of deleteMaterial
MapActiveProduct(cs, acid, apid, G) ==
    MapProductsOf(cs, acid, [ps \in ProductLists(cs) |-> MapProduct(ps, apid, G)])

AddContract ==
    /\ PageReady
    /\ \E newId \in ClockReadings :
          /\ now' = newId
          /\ contracts' = contracts \o << [id |-> newId, products |-> <<>>] >>
          /\ activeContractId' = newId
    /\ activeProductId' = NullId
    /\ UNCHANGED <<materialDB, isDbLoading, dbError, confirmConfig, fetchPc, response>>
    /\ Done("addContract")
    /\ Render

DeleteContract(contractId) ==
    /\ PageReady
    /\ IF Len(contracts) <= 1
       THEN /\ UNCHANGED confirmConfig
            /\ Done("deleteContractRefused")
       ELSE /\ confirmConfig' = [ClosedConfirm EXCEPT !.isOpen = TRUE,
                                     !.kind = "contract", !.contractId = contractId]
            /\ Done("deleteContract")
    /\ UNCHANGED <<materialDB, isDbLoading, dbError, contracts, activeContractId,
                   activeProductId, fetchPc, response, now>>
    /\ Render

DeleteProduct(contractId, productId) ==
    /\ PageReady
    /\ confirmConfig' = [ClosedConfirm EXCEPT !.isOpen = TRUE, !.kind = "product",
                             !.contractId = contractId, !.productId = productId]
    /\ UNCHANGED <<materialDB, isDbLoading, dbError, contracts, activeContractId,
                   activeProductId, fetchPc, response, now>>
    /\ Done("deleteProduct")
    /\ Render

\* materialIndex counts from 1 here, from 0 in the code
DeleteMaterial(materialIndex, materialId) ==
    /\ PageReady
    /\ confirmConfig' = [ClosedConfirm EXCEPT !.isOpen = TRUE, !.kind = "material",
                             !.materialIndex = materialIndex,
                             !.materialId = materialId]
    /\ UNCHANGED <<materialDB, isDbLoading, dbError, contracts, activeContractId,
                   activeProductId, fetchPc, response, now>>
    /\ Done("deleteMaterial")
    /\ Render


(***************************************************************************)
(* The two buttons of the ConfirmModal.  onConfirm closes over contracts,  *)
(* activeContractId and activeProductId of the render in which the         *)
(* deletion was requested; no action changes them while the modal is open, *)
(* so they are the current values.                                         *)
(***************************************************************************)
\* onConfirm of deleteContract (lines 144-152).  With newContracts empty,
\* newContracts[0].id throws after setContracts was queued: the list is
\* replaced and the statements after the throw do not run.
ConfirmDeleteContract ==
    LET contractId == confirmConfig.contractId
        newContracts == SelectSeq(contracts, LAMBDA c : c.id # contractId)
    IN  /\ contracts' = newContracts
        /\ IF activeContractId = contractId
           THEN IF newContracts = <<>>
                THEN UNCHANGED <<activeContractId, activeProductId, confirmConfig>>
                ELSE /\ activeContractId' = newContracts[1].id
                     /\ activeProductId' = NullId
                     /\ confirmConfig' = Closed(confirmConfig)
           ELSE /\ UNCHANGED <<activeContractId, activeProductId>>
                /\ confirmConfig' = Closed(confirmConfig)
        /\ Done("confirmDeleteContract")

\* onConfirm of deleteProduct (lines 180-184)
ConfirmDeleteProduct ==
    LET contractId == confirmConfig.contractId
        productId == confirmConfig.productId
    IN  /\ contracts' = MapProductsOf(contracts, contractId,
                            [ps \in ProductLists(contracts) |->
                                SelectSeq(ps, LAMBDA p : p.id # productId)])
        /\ activeProductId' = IF activeProductId = productId THEN NullId
                              ELSE activeProductId
        /\ UNCHANGED activeContractId
        /\ confirmConfig' = Closed(confirmConfig)
        /\ Done("confirmDeleteProduct")

\* the material removed and its transport entries left behind
WithoutMaterialOnly(p, materialIndex, materialId) ==
    [p EXCEPT !.materials = RemoveAt(p.materials, materialIndex)]

\* what the onConfirm of deleteMaterial makes of the product (lines 211-215)
WithoutMaterial(p, materialIndex, materialId) ==
    [p EXCEPT !.materials = RemoveAt(p.materials, materialIndex),
              !.upstreamTransport =
                  SelectSeq(p.upstreamTransport, LAMBDA t : t.materialId # materialId)]

\* onConfirm of deleteMaterial (lines 206-219)
ConfirmDeleteMaterial ==
    LET materialIndex == confirmConfig.materialIndex
        materialId == confirmConfig.materialId
    IN  /\ contracts' = MapActiveProduct(contracts, activeContractId, activeProductId,
                            [p \in Products(contracts) |->
                                WithoutMaterial(p, materialIndex, materialId)])
        /\ UNCHANGED <<activeContractId, activeProductId>>
        /\ confirmConfig' = Closed(confirmConfig)
        /\ lastOp' = [op |-> "confirmDeleteMaterial",
                      removed |-> IF hasActiveProduct
                                  THEN Len(activeProduct.upstreamTransport)
                                       - Len(WithoutMaterial(activeProduct, materialIndex,
                                                 materialId).upstreamTransport)
                                  ELSE 0]

\* the confirm button: onConfirm={confirmConfig.onConfirm}
Confirm ==
    /\ fetchPc # "unmounted"
    /\ confirmConfig.isOpen
    /\ CASE confirmConfig.kind = "contract" -> ConfirmDeleteContract
         [] confirmConfig.kind = "product"  -> ConfirmDeleteProduct
         [] confirmConfig.kind = "material" -> ConfirmDeleteMaterial
    /\ UNCHANGED <<materialDB, isDbLoading, dbError, fetchPc, response, now>>
    /\ Render

\* onCancel (line 325)
Cancel ==
    /\ fetchPc # "unmounted"
    /\ confirmConfig.isOpen
    /\ confirmConfig' = Closed(confirmConfig)
    /\ UNCHANGED <<materialDB, isDbLoading, dbError, contracts, activeContractId,
                   activeProductId, fetchPc, response, now>>
    /\ Done("cancel")
    /\ Render

(***************************************************************************)
(* Sidebar.                                                                *)
(***************************************************************************)
\* contract header onClick (line 345)
SelectContract(contractId) ==
    /\ PageReady
    /\ activeContractId' = contractId
    /\ UNCHANGED <<materialDB, isDbLoading, dbError, contracts, activeProductId,
                   confirmConfig, fetchPc, response, now>>
    /\ Done("selectContract")
    /\ Render

\* product row onClick (line 368)
SelectProduct(contractId, productId) ==
    /\ PageReady
    /\ activeContractId' = contractId
    /\ activeProductId' = productId
    /\ UNCHANGED <<materialDB, isDbLoading, dbError, contracts, confirmConfig,
                   fetchPc, response, now>>
    /\ Done("selectProduct")
    /\ Render

AddProduct(targetContractId) ==
    /\ PageReady
    /\ \E newId \in ClockReadings :
          /\ now' = newId
          /\ contracts' = MapProductsOf(contracts, targetContractId,
                              [ps \in ProductLists(contracts) |->
                                  ps \o <<NewProduct(newId, newId + 1)>>])
          /\ activeProductId' = newId
    /\ activeContractId' = targetContractId
    /\ UNCHANGED <<materialDB, isDbLoading, dbError, confirmConfig, fetchPc, response>>
    /\ Done("addProduct")
    /\ Render

(***************************************************************************)
(* The editor of the active product.                                       *)
(***************************************************************************)
\* the setContracts argument of updateProduct (lines 189-192)
UpdatedProduct(cs, acid, apid, key, value) ==
    MapActiveProduct(cs, acid, apid, [p \in Products(cs) |-> [p EXCEPT ![key] = value]])

UpdateProduct(key, value) ==
    /\ PageReady
    /\ hasActiveProduct
    /\ contracts' = UpdatedProduct(contracts, activeContractId, activeProductId,
                                   key, value)
    /\ UNCHANGED <<materialDB, isDbLoading, dbError, activeContractId,
                   activeProductId, confirmConfig, fetchPc, response>>

\* what updateNested makes of the product (lines 231-247); index counts
\* from 1 in the two lists
NestedUpdate(p, section, index, field, value) ==
    CASE section = "materials" ->
            [p EXCEPT !.materials[index][field] = value]
      [] section = "upstreamTransport" ->
            [p EXCEPT !.upstreamTransport[index][field] = value]
      [] section = "manufacturing" ->
            [p EXCEPT !.manufacturing[field] = value]
      [] section = "downstreamTransport" ->
            [p EXCEPT !.downstreamTransport[field] = value]
      [] OTHER -> p

UpdateNested(section, index, field, value) ==
    /\ PageReady
    /\ hasActiveProduct
    /\ contracts' = MapActiveProduct(contracts, activeContractId, activeProductId,
                        [p \in Products(contracts) |->
                            NestedUpdate(p, section, index, field, value)])
    /\ UNCHANGED <<materialDB, isDbLoading, dbError, activeContractId,
                   activeProductId, confirmConfig, fetchPc, response, now>>
    /\ Done("updateNested")
    /\ Render

\* the stage sections A-D are rendered for a product without override
StagesShown == PageReady /\ hasActiveProduct /\ ~activeProduct.hasFullData

AddMaterial ==
    /\ StagesShown
    /\ \E newId \in ClockReadings :
          /\ now' = newId
          /\ UpdateProduct("materials", activeProduct.materials \o <<NewMaterial(newId)>>)
    /\ Done("addMaterial")
    /\ Render

\* the "add transport" button (lines 709-713)
AddTransport ==
    /\ StagesShown
    /\ \E newId \in ClockReadings :
          LET mId == IF Len(activeProduct.materials) > 0
                     THEN activeProduct.materials[1].id ELSE EmptyString
          IN  /\ now' = newId
              /\ UpdateProduct("upstreamTransport",
                     activeProduct.upstreamTransport \o <<NewTransport(newId, mId)>>)
    /\ Done("addTransport")
    /\ Render

\* the trash button of a transport row (line 697)
RemoveTransport(idx) ==
    /\ StagesShown
    /\ UpdateProduct("upstreamTransport", RemoveAt(activeProduct.upstreamTransport, idx))
    /\ UNCHANGED now
    /\ Done("removeTransport")
    /\ Render

\* Number(e.target.value) of the material <select> of a transport row: the
\* blank option has value "", the others String(m.id)
NumberOfOption(v) == IF v = EmptyString THEN 0 ELSE v

MaterialOptions(p) == {EmptyString} \cup {p.materials[i].id : i \in DOMAIN p.materials}

\* onChange of that <select> (line 660)
SelectTransportMaterial(idx, option) ==
    /\ StagesShown
    /\ UpdateNested("upstreamTransport", idx, "materialId", NumberOfOption(option))

\* the checkbox "hasFullData" (line 441)
SetHasFullData(checked) ==
    /\ UpdateProduct("hasFullData", checked)
    /\ UNCHANGED now
    /\ Done("updateProduct")
    /\ Render


\* the production year <select> (line 431): Number(e.target.value)
SetYear(year) ==
    /\ UpdateProduct("year", year)
    /\ UNCHANGED now
    /\ Done("updateProduct")
    /\ Render

\* the two mode buttons of section C (lines 742, 750)
SetMode(mode) ==
    /\ StagesShown
    /\ UpdateNested("manufacturing", 0, "mode", mode)

\* the override <input type="number"> (line 476), shown with the override on
SetTotalOverride(value) ==
    /\ hasActiveProduct
    /\ activeProduct.hasFullData
    /\ UpdateProduct("totalOverride", value)
    /\ UNCHANGED now
    /\ Done("updateProduct")
    /\ Render

\* the electricity <input type="number"> of section C (lines 768, 790)
SetElectricityUsage(value) ==
    /\ StagesShown
    /\ UpdateNested("manufacturing", 0, "electricityUsage", value)

\* the weight <input type="number"> of a material row (line 529)
SetMaterialWeight(idx, value) ==
    /\ StagesShown
    /\ idx \in DOMAIN activeProduct.materials
    /\ UpdateNested("materials", idx, "weight", value)

\* the ids the SearchableSelect of a material row offers: options={materialDB}
FactorOptions == {materialDB[k].id : k \in DOMAIN materialDB}

\* onChange of that SearchableSelect (line 549), shown for a row with useDb
SetMaterialFactorId(idx, val) ==
    /\ StagesShown
    /\ idx \in DOMAIN activeProduct.materials
    /\ activeProduct.materials[idx].useDb
    /\ val \in FactorOptions
    /\ UpdateNested("materials", idx, "factorId", val)

\* the weight and distance inputs of a transport row (lines 673, 681)
SetTransportWeight(idx, value) ==
    /\ StagesShown
    /\ idx \in DOMAIN activeProduct.upstreamTransport
    /\ UpdateNested("upstreamTransport", idx, "weight", value)

SetTransportDistance(idx, value) ==
    /\ StagesShown
    /\ idx \in DOMAIN activeProduct.upstreamTransport
    /\ UpdateNested("upstreamTransport", idx, "distance", value)

\* the trash button of a material row (line 564)
DeleteMaterialRow(idx) ==
    /\ StagesShown
    /\ idx \in DOMAIN activeProduct.materials
    /\ DeleteMaterial(idx, activeProduct.materials[idx].id)

(***************************************************************************)
(* The application: every handler, with the values the model enters.  The  *)
(* handlers that add an object are taken while the result fits the bounds. *)
(***************************************************************************)
Within(maxContracts, maxRows) ==
    Len(contracts') <= maxContracts /\ ContractsRows(contracts') <= maxRows

RowIndexes == 1..(MaxRows + MaxEditorRows)

\* the material <select> of transport row idx is set to one of its options
ChooseTransportMaterial(idx) ==
    /\ StagesShown
    /\ idx \in DOMAIN activeProduct.upstreamTransport
    /\ \E option \in MaterialOptions(activeProduct) :
          SelectTransportMaterial(idx, option)

Next ==
    \/ Mount
    \/ FetchResolves
    \/ FetchRejects
    \/ AddContract /\ Within(MaxContracts, MaxRows)
    \/ \E c \in ContractIds : DeleteContract(c)
    \/ \E i \in DOMAIN contracts : \E j \in DOMAIN contracts[i].products :
          DeleteProduct(contracts[i].id, contracts[i].products[j].id)
    \/ Confirm
    \/ Cancel
    \/ \E c \in ContractIds : SelectContract(c)
    \/ \E i \in DOMAIN contracts : \E j \in DOMAIN contracts[i].products :
          SelectProduct(contracts[i].id, contracts[i].products[j].id)
    \/ \E c \in ContractIds \cup {activeContractId} :
          AddProduct(c) /\ Within(MaxContracts, MaxRows)
    \/ AddMaterial /\ Within(MaxContracts, MaxRows)
    \/ \E idx \in RowIndexes : DeleteMaterialRow(idx)
    \/ AddTransport /\ Within(MaxContracts, MaxRows)
    \/ \E idx \in RowIndexes : RemoveTransport(idx)
    \/ \E idx \in RowIndexes : ChooseTransportMaterial(idx)

Spec == Init /\ [][Next]_vars

(***************************************************************************)
(* The session: the same handlers from the same initial state, with the    *)
(* contracts, products, material rows and transport rows bounded together. *)
(***************************************************************************)
Objects(cs) == Len(cs) + ContractsRows(cs)

FitsSession == Objects(contracts') <= MaxObjects

SessionNext ==
    \/ Mount
    \/ FetchResolves
    \/ FetchRejects
    \/ AddContract /\ FitsSession
    \/ \E c \in ContractIds : DeleteContract(c)
    \/ \E i \in DOMAIN contracts : \E j \in DOMAIN contracts[i].products :
          DeleteProduct(contracts[i].id, contracts[i].products[j].id)
    \/ Confirm
    \/ Cancel
    \/ \E c \in ContractIds : SelectContract(c)
    \/ \E i \in DOMAIN contracts : \E j \in DOMAIN contracts[i].products :
          SelectProduct(contracts[i].id, contracts[i].products[j].id)
    \/ \E c \in ContractIds \cup {activeContractId} :
          AddProduct(c) /\ FitsSession
    \/ AddMaterial /\ FitsSession
    \/ \E idx \in RowIndexes : DeleteMaterialRow(idx)
    \/ AddTransport /\ FitsSession
    \/ \E idx \in RowIndexes : RemoveTransport(idx)
    \/ \E idx \in RowIndexes : ChooseTransportMaterial(idx)

SessionSpec == Init /\ [][SessionNext]_vars

(***************************************************************************)
(* The sidebar: the application from its construction under the handlers   *)
(* of the contract and product lists and of the ConfirmModal, with the     *)
(* electricity field of the open product as the one input of the result    *)
(* that is edited.                                                         *)
(***************************************************************************)
RECURSIVE SidebarProducts(_)
SidebarProducts(cs) ==
    IF cs = <<>> THEN 0 ELSE Len(Head(cs).products) + SidebarProducts(Tail(cs))

FitsSidebar ==
    /\ Len(contracts') <= MaxSidebarContracts
    /\ SidebarProducts(contracts') <= MaxSidebarProducts

SidebarNext ==
    \/ Mount
    \/ FetchResolves
    \/ FetchRejects
    \/ AddContract /\ FitsSidebar
    \/ \E c \in ContractIds : DeleteContract(c)
    \/ \E i \in DOMAIN contracts : \E j \in DOMAIN contracts[i].products :
          DeleteProduct(contracts[i].id, contracts[i].products[j].id)
    \/ Confirm
    \/ Cancel
    \/ \E c \in ContractIds : SelectContract(c)
    \/ \E i \in DOMAIN contracts : \E j \in DOMAIN contracts[i].products :
          SelectProduct(contracts[i].id, contracts[i].products[j].id)
    \/ \E c \in ContractIds \cup {activeContractId} :
          AddProduct(c) /\ FitsSidebar
    \/ \E value \in {"0", "3"} : SetElectricityUsage(value)

SidebarSpec == Init /\ [][SidebarNext]_vars

(***************************************************************************)
(* The product editor: the application once mounted, with the first        *)
(* product open and the request for the sheet still pending, under the     *)
(* handlers of the stage sections A and B and of the ConfirmModal.         *)
(***************************************************************************)
EditorInit ==
    /\ materialDB = INITIAL_MATERIAL_DB
    /\ isDbLoading = TRUE
    /\ dbError = "null"
    /\ \E newId \in {FirstContractId + 1} :
          /\ contracts = << [id |-> FirstContractId,
                             products |-> <<NewProduct(newId, newId + 1)>>] >>
          /\ activeProductId = newId
          /\ now = newId
    /\ activeContractId = FirstContractId
    /\ confirmConfig = ClosedConfirm
    /\ fetchPc = "pending"
    /\ response = NoResponse
    /\ calculation = CalculationOf(contracts, activeContractId, activeProductId,
                                   materialDB)
    /\ lastOp = [op |-> "other", removed |-> 0]

EditorNext ==
    \/ AddMaterial /\ Within(MaxContracts, MaxEditorRows)
    \/ \E idx \in RowIndexes : DeleteMaterialRow(idx)
    \/ Confirm
    \/ Cancel
    \/ AddTransport /\ Within(MaxContracts, MaxEditorRows)
    \/ \E idx \in RowIndexes : RemoveTransport(idx)
    \/ \E idx \in RowIndexes : ChooseTransportMaterial(idx)

EditorSpec == EditorInit /\ [][EditorNext]_vars

(***************************************************************************)
(* The material table: the application once mounted, with the first        *)
(* product open and the request for the sheet pending, under the weight    *)
(* and factor inputs of section A and the two ends of the request.         *)
(***************************************************************************)
FitsTable ==
    HasActiveProduct(contracts', activeContractId', activeProductId')
    /\ Len(ActiveProductOf(contracts', activeContractId',
                           activeProductId').materials) <= MaxTableMaterials

TableNext ==
    \/ FetchResolves
    \/ FetchRejects
    \/ AddMaterial /\ FitsTable
    \/ \E idx \in 1..MaxTableMaterials + 1 : SetMaterialWeight(idx, "10")
    \/ \E idx \in 1..MaxTableMaterials + 1 : \E val \in FactorOptions :
          SetMaterialFactorId(idx, val)

TableSpec == EditorInit /\ [][TableNext]_vars

(***************************************************************************)
(* Upstream transport: the application once mounted, with the first        *)
(* product open, under the inputs of the material weight and of the        *)
(* transport rows of section B.                                            *)
(***************************************************************************)
FitsLegs ==
    /\ HasActiveProduct(contracts', activeContractId', activeProductId')
    /\ LET p == ActiveProductOf(contracts', activeContractId', activeProductId')
       IN  /\ Len(p.materials) <= MaxLegMaterials
           /\ Len(p.upstreamTransport) <= MaxLegs

LegsNext ==
    \/ AddMaterial /\ FitsLegs
    \/ \E idx \in 1..MaxLegMaterials + 1 : SetMaterialWeight(idx, "10")
    \/ AddTransport /\ FitsLegs
    \/ \E idx \in 1..MaxLegs + 1 : ChooseTransportMaterial(idx)
    \/ \E idx \in 1..MaxLegs + 1 : \E value \in {"6", "3.9995", "3.998"} :
          SetTransportWeight(idx, value)

LegsSpec == EditorInit /\ [][LegsNext]_vars

(***************************************************************************)
(* The add-transport button: the application once mounted, with the first  *)
(* product open, under that button, the weight and distance inputs of the  *)
(* transport rows and the deletion of the material row.                    *)
(***************************************************************************)
FitsAdded ==
    /\ HasActiveProduct(contracts', activeContractId', activeProductId')
    /\ Len(ActiveProductOf(contracts', activeContractId',
                           activeProductId').upstreamTransport) <= MaxAdded

AddedNext ==
    \/ AddTransport /\ FitsAdded
    \/ \E idx \in 1..MaxAdded + 1 : SetTransportWeight(idx, "6")
    \/ \E idx \in 1..MaxAdded + 1 : SetTransportDistance(idx, "100")
    \/ \E idx \in 1..MaxAdded + 1 : RemoveTransport(idx)
    \/ DeleteMaterialRow(1)
    \/ Confirm
    \/ Cancel

AddedSpec == EditorInit /\ [][AddedNext]_vars


(***************************************************************************)
(* The calculation as a function of the product and the material table:   *)
(* the application with one product open, drawn from the products below,   *)
(* with the material table the built-in one or a fetched one, under the    *)
(* handlers that switch between the branches of the calculation.  The      *)
(* products vary one stage at a time, and all four together in             *)
(* MixedProducts.  Vehicle ids outside TRANSPORT_FACTORS are values of the *)
(* Product type (vehicleId: string) that no <select> of the page offers.   *)
(***************************************************************************)
SeqsUpTo(S, n) == UNION {[1..k -> S] : k \in 0..n}

\* the rows numbered as Date.now() ids in increasing order
WithIds(rows, firstId) == [i \in DOMAIN rows |-> [rows[i] EXCEPT !.id = firstId + i]]

CalcProductId == FirstContractId + 1

BlankProduct ==
    [NewProduct(CalcProductId, CalcProductId + 1) EXCEPT !.materials = <<>>]

\* table entries (each id is in one of the two tables only) and custom
\* entries, whose factorId is not read
CalcMaterialRows ==
    [id : {0}, weight : {"10", "0.0001"}, factorId : {"m1", "sheet_0"},
     customFactor : {"3"}, useDb : {TRUE}]
    \cup [id : {0}, weight : {"10", "0.0001"}, factorId : {"m1"},
          customFactor : {"3"}, useDb : {FALSE}]

\* entries of a vehicle of the table, and one of a vehicle that is not in it
CalcTransportRows ==
    [id : {0}, materialId : {EmptyString}, weight : {"1000", "1"},
     distance : {"100", "1", "0"}, vehicleId : {"t1"}]
    \cup [id : {0}, materialId : {EmptyString}, weight : {"1000"},
          distance : {"100"}, vehicleId : {"t9"}]

CalcManufacturing ==
    [mode : {"perUnit"}, electricityUsage : {"0", "1", "3"},
     totalOutput : {"0", "", "0.5", "-2", "3"}]

CalcDownstream ==
    [weight : {"1000", "1", "0"}, distance : {"100", "1", "0"},
     vehicleId : {"t1", "t9"}]

MaterialProducts ==
    {[BlankProduct EXCEPT !.materials = WithIds(ms, CalcProductId)] :
        ms \in SeqsUpTo(CalcMaterialRows, MaxCalcMaterials)}

TransportProducts ==
    {[BlankProduct EXCEPT !.upstreamTransport = WithIds(ts, CalcProductId)] :
        ts \in SeqsUpTo(CalcTransportRows, MaxCalcTransport)}

\* years of the table, and one before it (year: number)
CalcYears == {2022, 2023, 2024, 2025}

ManufacturingProducts ==
    {[BlankProduct EXCEPT !.manufacturing = mfg, !.year = y] :
        mfg \in CalcManufacturing, y \in CalcYears}

DownstreamProducts ==
    {[BlankProduct EXCEPT !.downstreamTransport = d] : d \in CalcDownstream}

MixedProducts ==
    {[BlankProduct EXCEPT !.materials = ms, !.upstreamTransport = ts,
                          !.manufacturing = mfg, !.downstreamTransport = d] :
        ms \in {<<>>, << [NewMaterial(CalcProductId + 1) EXCEPT
                            !.weight = "0.0001", !.factorId = "m1"] >>},
        ts \in {<<>>, << [NewTransport(CalcProductId + 1, EmptyString) EXCEPT
                            !.weight = "1", !.distance = "1"] >>},
        mfg \in {BlankProduct.manufacturing,
                 [mode |-> "perUnit", electricityUsage |-> "1", totalOutput |-> "3"]},
        d \in {BlankProduct.downstreamTransport,
               [weight |-> "1", distance |-> "1", vehicleId |-> "t1"]}}

FetchedTable == ParseRows(<<GoodRow>>)

\* <<product, material table>>
CalcInputs ==
    (MaterialProducts \X {INITIAL_MATERIAL_DB, FetchedTable})
    \cup ((TransportProducts \cup ManufacturingProducts \cup DownstreamProducts
           \cup MixedProducts) \X {INITIAL_MATERIAL_DB})

CalcInit ==
    /\ \E input \in CalcInputs :
          /\ contracts = << [id |-> FirstContractId, products |-> <<input[1]>>] >>
          /\ materialDB = input[2]
    /\ isDbLoading = FALSE
    /\ dbError = "null"
    /\ activeContractId = FirstContractId
    /\ activeProductId = CalcProductId
    /\ confirmConfig = ClosedConfirm
    /\ fetchPc = "done"
    /\ response = Delivered(IF materialDB = FetchedTable THEN <<GoodRow>>
                             ELSE <<BadRow>>)
    /\ now = CalcProductId
    /\ calculation = CalculationOf(contracts, activeContractId, activeProductId,
                                   materialDB)
    /\ lastOp = [op |-> "other", removed |-> 0]

CalcNext ==
    \/ \E checked \in BOOLEAN : SetHasFullData(checked)
    \/ \E value \in {"12.5", ""} : SetTotalOverride(value)
    \/ \E year \in {2024, 2026} : SetYear(year)
    \/ \E mode \in {"perUnit", "totalAllocated"} : SetMode(mode)

CalcSpec == CalcInit /\ [][CalcNext]_vars


(***************************************************************************)
(* PROPERTIES                                                              *)
(*                                                                         *)
(* The stage quantities as the specification states them, written without  *)
(* the operators of the calculation above.                                 *)
(***************************************************************************)
RECURSIVE RSum(_)
RSum(seq) == IF seq = <<>> THEN Zero ELSE RAdd(Head(seq), RSum(Tail(seq)))

RAbs(a) == Rat(Abs(a.n), a.d)

RSub(a, b) == RAdd(a, Rat(-b.n, b.d))

StatedMaterialFactor(m, db) ==
    IF ~m.useDb THEN NumberOf(m.customFactor)
    ELSE LET hits == {i \in DOMAIN db : db[i].id = m.factorId}
         IN  IF hits = {} THEN Zero ELSE db[CHOOSE i \in hits : TRUE].factor

StatedA(p, db) ==
    RSum([i \in DOMAIN p.materials |->
            RMul(NumberOf(p.materials[i].weight),
                 StatedMaterialFactor(p.materials[i], db))])

StatedVehicleFactor(vehicleId) ==
    CASE vehicleId = "t1" -> Rat(131, 1000)
      [] vehicleId = "t2" -> Rat(587, 1000)
      [] vehicleId = "t3" -> Rat(683, 1000)
      [] vehicleId = "t4" -> Rat(198, 100)
      [] vehicleId = "t5" -> Rat(116, 100)
      [] OTHER -> Zero

StatedTonneKm(weight, distance, vehicleId) ==
    RMul(RMul(RMul(NumberOf(weight), Rat(1, 1000)), NumberOf(distance)),
         StatedVehicleFactor(vehicleId))

StatedB(p) ==
    RSum([i \in DOMAIN p.upstreamTransport |->
            StatedTonneKm(p.upstreamTransport[i].weight,
                          p.upstreamTransport[i].distance,
                          p.upstreamTransport[i].vehicleId)])

StatedElectricityFactor(year) ==
    CASE year = 2023 -> Rat(495, 1000)
      [] year = 2024 -> Rat(494, 1000)
      [] year = 2025 -> Rat(474, 1000)
      [] year = 2026 -> Rat(455, 1000)
      [] OTHER -> Rat(495, 1000)

\* C with the given divisor in the totalAllocated mode
StatedC(p, divisor) ==
    IF p.manufacturing.mode = "perUnit"
    THEN RMul(NumberOf(p.manufacturing.electricityUsage),
              StatedElectricityFactor(p.year))
    ELSE RMul(RDiv(NumberOf(p.manufacturing.electricityUsage), divisor),
              StatedElectricityFactor(p.year))

\* max(totalOutput, 1)
MaxWithOne(totalOutput) ==
    IF RLe(NumberOf(totalOutput), One) THEN One ELSE NumberOf(totalOutput)

\* totalOutput, and 1 in place of a zero
NonZeroOrOne(totalOutput) ==
    IF NumberOf(totalOutput) = Zero THEN One ELSE NumberOf(totalOutput)

StatedD(p) ==
    StatedTonneKm(p.downstreamTransport.weight, p.downstreamTransport.distance,
                  p.downstreamTransport.vehicleId)

StatedSum(p, db) ==
    RSum(<<StatedA(p, db), StatedB(p), StatedC(p, NonZeroOrOne(p.manufacturing.totalOutput)),
           StatedD(p)>>)

\* x is a whole number of 10^-4 units
HasFourDecimals(x) == Pow10(FixedDigits) % x.d = 0

\* x is r rounded to 4 decimal digits: a 4-digit decimal at most half a unit
\* of the last digit away from r
IsRounded(x, r) ==
    /\ HasFourDecimals(x)
    /\ RLe(RAbs(RSub(x, r)), Rat(1, 2 * Pow10(FixedDigits)))

NonOverride == hasActiveProduct /\ ~activeProduct.hasFullData


(***************************************************************************)
(* C1.  In every reachable state each upstream transport entry's           *)
(* materialId is the id of a material entry of the same product or is      *)
(* unset (the empty string).  Stated as the claim states it; choosing the  *)
(* blank option of a row's material <select> stores Number("") = 0.        *)
(***************************************************************************)
ReferencesResolve(p) ==
    \A k \in DOMAIN p.upstreamTransport :
        \/ p.upstreamTransport[k].materialId = EmptyString
        \/ \E m \in DOMAIN p.materials :
              p.materials[m].id = p.upstreamTransport[k].materialId

C1_MaterialReferencesResolve ==
    \A i \in DOMAIN contracts : \A j \in DOMAIN contracts[i].products :
        ReferencesResolve(contracts[i].products[j])

(***************************************************************************)
(* C2.  The step that confirms the deletion of a material removes the      *)
(* material row at the requested position, which carries the requested id, *)
(* and exactly the transport entries whose materialId is that id: the      *)
(* other material rows and the other transport entries are kept, in order. *)
(***************************************************************************)
\* the number of transport entries among the first i that do not refer to id
KeptUpTo(transport, i, id) ==
    Cardinality({k \in 1..i : transport[k].materialId # id})

CascadeApplied(p, q, index, id) ==
    /\ index \in DOMAIN p.materials
    /\ p.materials[index].id = id
    /\ Len(q.materials) = Len(p.materials) - 1
    /\ \A i \in DOMAIN q.materials :
          q.materials[i] = IF i < index THEN p.materials[i] ELSE p.materials[i + 1]
    /\ Len(q.upstreamTransport)
          = KeptUpTo(p.upstreamTransport, Len(p.upstreamTransport), id)
    /\ \A k \in DOMAIN p.upstreamTransport :
          p.upstreamTransport[k].materialId # id =>
              q.upstreamTransport[KeptUpTo(p.upstreamTransport, k, id)]
                  = p.upstreamTransport[k]
    /\ [q EXCEPT !.materials = <<>>, !.upstreamTransport = <<>>]
          = [p EXCEPT !.materials = <<>>, !.upstreamTransport = <<>>]

C2_DeleteMaterialCascades ==
    [][ (confirmConfig.isOpen /\ confirmConfig.kind = "material"
            /\ lastOp'.op = "confirmDeleteMaterial")
        => /\ hasActiveProduct
           /\ HasActiveProduct(contracts', activeContractId', activeProductId')
           /\ CascadeApplied(activeProduct,
                  ActiveProductOf(contracts', activeContractId', activeProductId'),
                  confirmConfig.materialIndex, confirmConfig.materialId) ]_vars

\* a deletion was confirmed, it took a transport entry with it, and a
\* material and a transport entry that refers to it remain
C2_Witness ==
    /\ lastOp.op = "confirmDeleteMaterial"
    /\ lastOp.removed >= 1
    /\ hasActiveProduct
    /\ Len(activeProduct.materials) >= 1
    /\ \E k \in DOMAIN activeProduct.upstreamTransport :
          activeProduct.upstreamTransport[k].materialId = activeProduct.materials[1].id

(***************************************************************************)
(* C3.  With the override flag set the result has A = B = C = D = 0 and    *)
(* total the numeric value of totalOverride, whatever the entries hold.    *)
(***************************************************************************)
StatedOverride(text) ==
    CASE text = "12.5" -> [n |-> 25, d |-> 2]
      [] text = ""     -> [n |-> 0, d |-> 1]
      [] text = "0"    -> [n |-> 0, d |-> 1]

C3_OverrideTotal ==
    (hasActiveProduct /\ activeProduct.hasFullData) =>
        calculation = [A |-> Zero, B |-> Zero, C |-> Zero, D |-> Zero,
                       total |-> StatedOverride(activeProduct.totalOverride)]

C3_Witness ==
    /\ hasActiveProduct
    /\ activeProduct.hasFullData
    /\ activeProduct.totalOverride = "12.5"
    /\ Len(activeProduct.materials) = 2
    /\ activeProduct.materials[1].weight = "10"
    /\ activeProduct.materials[1].factorId = "m1"
    /\ materialDB = INITIAL_MATERIAL_DB
    /\ calculation.total = Rat(25, 2)
    /\ calculation.A = Zero

(***************************************************************************)
(* C4.  Without override, the returned A is the sum over the material      *)
(* entries of weight times factor (the custom factor for a custom entry,   *)
(* otherwise the factor of the table row with id factorId, 0 without such  *)
(* a row), as the result record rounds it; one entry of weight 10 with the *)
(* table factor 6.7 gives 67.                                              *)
(***************************************************************************)
IsExampleMaterial(p) ==
    /\ Len(p.materials) = 1
    /\ p.materials[1].weight = "10"
    /\ p.materials[1].useDb
    /\ p.materials[1].factorId = "m1"
    /\ materialDB = INITIAL_MATERIAL_DB

C4_StageA ==
    NonOverride =>
        /\ calculation.A = Round4(StatedA(activeProduct, materialDB))
        /\ IsExampleMaterial(activeProduct) => calculation.A = Rat(67, 1)

\* a table entry (10 x 6.7), a custom entry (10 x 3): A = 97
C4_Witness ==
    /\ NonOverride
    /\ Len(activeProduct.materials) = 2
    /\ activeProduct.materials[1].useDb
    /\ ~activeProduct.materials[2].useDb
    /\ calculation.A = Rat(97, 1)

(***************************************************************************)
(* C5.  Without override, the returned B is the sum over the upstream      *)
(* transport entries of (weight / 1000) x distance x vehicle factor (0 for *)
(* a vehicle id not in the table), as the result record rounds it; weight  *)
(* 1000, distance 100 and factor 0.131 give 13.1.                          *)
(***************************************************************************)
IsExampleTransport(p) ==
    /\ Len(p.upstreamTransport) = 1
    /\ p.upstreamTransport[1].weight = "1000"
    /\ p.upstreamTransport[1].distance = "100"
    /\ p.upstreamTransport[1].vehicleId = "t1"

C5_StageB ==
    NonOverride =>
        /\ calculation.B = Round4(StatedB(activeProduct))
        /\ IsExampleTransport(activeProduct) => calculation.B = Rat(131, 10)

\* the example entry and an entry with an unknown vehicle: B = 13.1
C5_Witness ==
    /\ NonOverride
    /\ Len(activeProduct.upstreamTransport) = 2
    /\ activeProduct.upstreamTransport[1].weight = "1000"
    /\ activeProduct.upstreamTransport[1].distance = "100"
    /\ activeProduct.upstreamTransport[1].vehicleId = "t1"
    /\ activeProduct.upstreamTransport[2].vehicleId = "t9"
    /\ calculation.B = Rat(131, 10)

(***************************************************************************)
(* C6.  As claimed: without override, C is usage x electricity factor in   *)
(* the perUnit mode and (usage / max(totalOutput, 1)) x electricity factor *)
(* otherwise, for every totalOutput.                                       *)
(***************************************************************************)
C6_DivisorIsMaxWithOne ==
    NonOverride =>
        calculation.C
            = Round4(StatedC(activeProduct,
                             MaxWithOne(activeProduct.manufacturing.totalOutput)))

(***************************************************************************)
(* C6, amended.  Without override, C is usage x electricity factor in the  *)
(* perUnit mode and (usage / d) x electricity factor otherwise, where d is *)
(* totalOutput when that is not zero (negative values and values below 1   *)
(* included) and 1 when it is zero.                                        *)
(***************************************************************************)
C6_StageC ==
    NonOverride =>
        calculation.C
            = Round4(StatedC(activeProduct,
                             NonZeroOrOne(activeProduct.manufacturing.totalOutput)))

\* 3 kWh over an output of -2 in 2024: C = -0.741
C6_Witness ==
    /\ NonOverride
    /\ activeProduct.manufacturing.mode = "totalAllocated"
    /\ activeProduct.manufacturing.totalOutput = "-2"
    /\ activeProduct.manufacturing.electricityUsage = "3"
    /\ activeProduct.year = 2024
    /\ calculation.C = Rat(-741, 1000)

(***************************************************************************)
(* C7.  In the totalAllocated mode with totalOutput 0 the divisor is 1:    *)
(* C = usage x electricity factor.                                         *)
(***************************************************************************)
C7_ZeroOutputDividesByOne ==
    (/\ NonOverride
     /\ activeProduct.manufacturing.mode = "totalAllocated"
     /\ activeProduct.manufacturing.totalOutput \in {"0", ""})
    => calculation.C
          = Round4(RMul(NumberOf(activeProduct.manufacturing.electricityUsage),
                        StatedElectricityFactor(activeProduct.year)))

\* 3 kWh over an output of 0 in 2024: C = 1.482
C7_Witness ==
    /\ NonOverride
    /\ activeProduct.manufacturing.mode = "totalAllocated"
    /\ activeProduct.manufacturing.totalOutput = "0"
    /\ activeProduct.manufacturing.electricityUsage = "3"
    /\ activeProduct.year = 2024
    /\ calculation.C = Rat(1482, 1000)

(***************************************************************************)
(* C8.  Without override, D is (downstream weight / 1000) x distance x     *)
(* vehicle factor (0 for a vehicle id not in the table), as the result     *)
(* record rounds it.                                                       *)
(***************************************************************************)
C8_StageD ==
    NonOverride => calculation.D = Round4(StatedD(activeProduct))

C8_Witness ==
    /\ NonOverride
    /\ activeProduct.downstreamTransport.weight = "1000"
    /\ activeProduct.downstreamTransport.distance = "100"
    /\ activeProduct.downstreamTransport.vehicleId = "t1"
    /\ calculation.D = Rat(131, 10)

(***************************************************************************)
(* C9.  As claimed: without override, the total field is the sum of the    *)
(* A, B, C and D fields of the same result.                                *)
(***************************************************************************)
FieldSum(r) == RSum(<<r.A, r.B, r.C, r.D>>)

C9_TotalIsSumOfFields ==
    NonOverride => calculation.total = FieldSum(calculation)

(***************************************************************************)
(* C9, amended.  Without override, the total field is the unrounded sum of *)
(* the four stage quantities, rounded to 4 decimal digits; it need not be  *)
(* the sum of the four rounded fields.                                     *)
(***************************************************************************)
C9_TotalIsRoundedSum ==
    NonOverride => calculation.total = Round4(StatedSum(activeProduct, materialDB))

\* B = D = 0.000131: the fields are 0.0001 each and the total is 0.0003
C9_Witness ==
    /\ NonOverride
    /\ calculation.A = Zero
    /\ calculation.B = Rat(1, 10000)
    /\ calculation.C = Zero
    /\ calculation.D = Rat(1, 10000)
    /\ calculation.total = Rat(3, 10000)

(***************************************************************************)
(* C10.  Without override, each of A, B, C, D and total is the             *)
(* corresponding unrounded quantity rounded to 4 decimal digits: a decimal *)
(* of 4 digits at most half a unit of the last digit away from it.         *)
(***************************************************************************)
C10_FieldsRounded ==
    NonOverride =>
        LET p == activeProduct
        IN  /\ IsRounded(calculation.A, StatedA(p, materialDB))
            /\ IsRounded(calculation.B, StatedB(p))
            /\ IsRounded(calculation.C,
                         StatedC(p, NonZeroOrOne(p.manufacturing.totalOutput)))
            /\ IsRounded(calculation.D, StatedD(p))
            /\ IsRounded(calculation.total, StatedSum(p, materialDB))

\* A = 0.00067 is returned as 0.0007, C = 0.494 / 3 as 0.1647
C10_Witness ==
    /\ NonOverride
    /\ StatedA(activeProduct, materialDB) = Rat(67, 100000)
    /\ calculation.A = Rat(7, 10000)
    /\ activeProduct.manufacturing.mode = "totalAllocated"
    /\ activeProduct.year = 2024
    /\ calculation.C = Rat(1647, 10000)

(***************************************************************************)
(* C11.  The electricity factor used for C is the table's value for the    *)
(* product's year when the year is one of 2023..2026 and 0.495 when it is  *)
(* not: without override, C is the usage (divided by the output in the     *)
(* totalAllocated mode) times that factor, as the result record rounds it, *)
(* and a usage of 1 in the perUnit mode returns the factor itself.         *)
(***************************************************************************)
StatedYearFactor(year) ==
    IF year \in 2023..2026 THEN StatedElectricityFactor(year) ELSE Rat(495, 1000)

C11_ElectricityFactor ==
    NonOverride =>
        LET mfg == activeProduct.manufacturing
            f == StatedYearFactor(activeProduct.year)
            perOutput == IF mfg.mode = "perUnit" THEN One
                         ELSE NonZeroOrOne(mfg.totalOutput)
        IN  /\ calculation.C
                  = Round4(RMul(RDiv(NumberOf(mfg.electricityUsage), perOutput), f))
            /\ (mfg.mode = "perUnit" /\ mfg.electricityUsage = "1")
                  => calculation.C = f

\* 1 kWh per unit in 2022, a year before the table: C = 0.495
C11_Witness ==
    /\ NonOverride
    /\ activeProduct.year = 2022
    /\ activeProduct.manufacturing.mode = "perUnit"
    /\ activeProduct.manufacturing.electricityUsage = "1"
    /\ calculation.C = Rat(495, 1000)

(***************************************************************************)
(* C12.  Without override, a product with no material entry, no upstream   *)
(* transport entry, zero electricity usage and zero downstream weight and  *)
(* distance has A = B = C = D = 0 and total = 0, whatever its year, mode,  *)
(* output and vehicle are.                                                 *)
(***************************************************************************)
IsZeroProduct(p) ==
    /\ p.materials = <<>>
    /\ p.upstreamTransport = <<>>
    /\ p.manufacturing.electricityUsage \in {"0", ""}
    /\ p.downstreamTransport.weight \in {"0", ""}
    /\ p.downstreamTransport.distance \in {"0", ""}

C12_ZeroEntriesZeroTotal ==
    (NonOverride /\ IsZeroProduct(activeProduct)) =>
        calculation = [A |-> Zero, B |-> Zero, C |-> Zero, D |-> Zero, total |-> Zero]

\* no entries, no usage, allocated over an output of 0
C12_Witness ==
    /\ NonOverride
    /\ IsZeroProduct(activeProduct)
    /\ activeProduct.manufacturing.mode = "totalAllocated"
    /\ activeProduct.manufacturing.totalOutput = "0"
    /\ calculation.total = Zero

(***************************************************************************)
(* C13.  As claimed: with the factors fixed, doubling the weight of every  *)
(* material entry exactly doubles the returned A.  The product with the    *)
(* weights doubled is the value the weight fields would be edited to.      *)
(***************************************************************************)
DoubleOf(weight) ==
    CASE weight = "10"     -> "20"
      [] weight = "0.0001" -> "0.0002"
      [] weight = "0"      -> "0"
      [] weight = ""       -> ""

WeightsDoubled(p) ==
    [p EXCEPT !.materials =
        [i \in DOMAIN p.materials |->
            [p.materials[i] EXCEPT !.weight = DoubleOf(p.materials[i].weight)]]]

Twice(x) == RMul(Rat(2, 1), x)

ReturnedADoubled == Calculate(TRUE, WeightsDoubled(activeProduct), materialDB).A

C13_ReturnedADoubles ==
    NonOverride => ReturnedADoubled = Twice(calculation.A)

(***************************************************************************)
(* C13, amended.  Doubling the weight of every material entry doubles the  *)
(* unrounded A: the returned A becomes twice the unrounded A rounded to 4  *)
(* decimal digits.  That is within 0.0001 of twice the A returned before,  *)
(* and equal to it when the unrounded A has at most 4 decimal digits.      *)
(***************************************************************************)
C13_UnroundedADoubles ==
    NonOverride =>
        LET a == StatedA(activeProduct, materialDB)
        IN  /\ ReturnedADoubled = Round4(Twice(a))
            /\ RLe(RAbs(RSub(ReturnedADoubled, Twice(calculation.A))),
                   Rat(1, Pow10(FixedDigits)))
            /\ HasFourDecimals(a) => ReturnedADoubled = Twice(calculation.A)

\* 0.0001 x 6.7 is returned as 0.0007, 0.0002 x 6.7 as 0.0013
C13_Witness ==
    /\ NonOverride
    /\ Len(activeProduct.materials) = 1
    /\ activeProduct.materials[1].weight = "0.0001"
    /\ calculation.A = Rat(7, 10000)
    /\ ReturnedADoubled = Rat(13, 10000)

(***************************************************************************)
(* C14.  Without override, B = 0 when every upstream transport entry has   *)
(* distance 0, and D = 0 when the downstream record has distance 0,        *)
(* whatever the weights and the vehicles are.                              *)
(***************************************************************************)
C14_ZeroDistance ==
    NonOverride =>
        /\ (\A k \in DOMAIN activeProduct.upstreamTransport :
                activeProduct.upstreamTransport[k].distance \in {"0", ""})
              => calculation.B = Zero
        /\ activeProduct.downstreamTransport.distance \in {"0", ""}
              => calculation.D = Zero

\* two upstream entries of 1000 kg and of 1 kg, both over a distance of 0
C14_Witness ==
    /\ NonOverride
    /\ Len(activeProduct.upstreamTransport) = 2
    /\ activeProduct.upstreamTransport[1].weight = "1000"
    /\ activeProduct.upstreamTransport[1].vehicleId = "t1"
    /\ activeProduct.upstreamTransport[1].distance = "0"
    /\ activeProduct.upstreamTransport[2].distance = "0"
    /\ calculation.B = Zero

(***************************************************************************)
(* C15.  The calculation produces a result record for every product, and   *)
(* every missing reference counts as a factor of zero: a table-flagged     *)
(* material entry whose factorId is not in the material table adds nothing *)
(* to A, an upstream entry whose vehicleId is not in the transport table   *)
(* adds nothing to B, and D is 0 when the downstream vehicleId is not in   *)
(* the transport table.                                                    *)
(***************************************************************************)
IsNumber(x) == DOMAIN x = {"n", "d"} /\ x.n \in Int /\ x.d \in Nat \ {0}

IsResult(r) ==
    /\ DOMAIN r = {"A", "B", "C", "D", "total"}
    /\ \A f \in DOMAIN r : IsNumber(r[f])

FactorResolves(m, db) == ~m.useDb \/ \E i \in DOMAIN db : db[i].id = m.factorId

VehicleResolves(vehicleId) == vehicleId \in {"t1", "t2", "t3", "t4", "t5"}

\* p without the entries whose reference is missing
ResolvedOnly(p, db) ==
    [p EXCEPT !.materials = SelectSeq(p.materials, LAMBDA m : FactorResolves(m, db)),
              !.upstreamTransport =
                  SelectSeq(p.upstreamTransport,
                            LAMBDA t : VehicleResolves(t.vehicleId))]

C15_MissingReferencesCountZero ==
    /\ IsResult(calculation)
    /\ NonOverride =>
          /\ calculation.A
                = Round4(StatedA(ResolvedOnly(activeProduct, materialDB), materialDB))
          /\ calculation.B = Round4(StatedB(ResolvedOnly(activeProduct, materialDB)))
          /\ ~VehicleResolves(activeProduct.downstreamTransport.vehicleId)
                => calculation.D = Zero

\* 10 kg of a material that is not in the built-in table, 10 kg of m1: A = 67
C15_Witness ==
    /\ NonOverride
    /\ materialDB = INITIAL_MATERIAL_DB
    /\ Len(activeProduct.materials) = 2
    /\ activeProduct.materials[1].useDb
    /\ activeProduct.materials[1].factorId = "sheet_0"
    /\ activeProduct.materials[1].weight = "10"
    /\ activeProduct.materials[2].factorId = "m1"
    /\ activeProduct.materials[2].weight = "10"
    /\ activeProduct.materials[2].useDb
    /\ calculation.A = Rat(67, 1)

(***************************************************************************)
(* C16.  When the fetch of the sheet fails (the request throws, or the     *)
(* response has no valid row), the step that ends it leaves the material   *)
(* table exactly as it was before, ends the loading state and changes      *)
(* nothing of the contracts, the active ids and the modal: nothing escapes *)
(* fetchSheetData and the page goes on taking input.                       *)
(***************************************************************************)
IsValidRow(row) == row.hasName /\ row.isNumber

\* the fetch ends in this step with the request thrown or no valid row
FetchFails ==
    /\ fetchPc = "pending"
    /\ fetchPc' = "done"
    /\ \/ response'.status = "rejected"
       \/ \A i \in DOMAIN response'.rows : ~IsValidRow(response'.rows[i])

C16_FailedFetchKeepsTable ==
    [][ FetchFails =>
          /\ materialDB' = materialDB
          /\ isDbLoading' = FALSE
          /\ UNCHANGED <<contracts, activeContractId, activeProductId, confirmConfig>>
      ]_vars

\* the request was rejected, the built-in table is in place, and the
\* material row was deleted and a transport row added afterwards
C16_Witness ==
    /\ fetchPc = "done"
    /\ response = Rejected
    /\ dbError = "offline"
    /\ materialDB = INITIAL_MATERIAL_DB
    /\ ~isDbLoading
    /\ hasActiveProduct
    /\ Len(activeProduct.materials) = 0
    /\ Len(activeProduct.upstreamTransport) = 1

(***************************************************************************)
(* C17.  As claimed: whenever the fetch ends without replacing the         *)
(* material table the warning (dbError) is non-null afterwards, and        *)
(* whenever it replaces the table the warning is null.  A response without *)
(* a valid row ends the fetch with the table kept and no warning set.      *)
(***************************************************************************)
FetchEnds == fetchPc = "pending" /\ fetchPc' = "done"

C17_FailureIsReported ==
    [][ FetchEnds =>
          IF materialDB' = materialDB THEN dbError' # "null" ELSE dbError' = "null"
      ]_vars

(***************************************************************************)
(* C18.  The material table changes only in the step that ends the fetch   *)
(* started at mount, only when the response holds at least one valid row,  *)
(* and then to exactly the valid rows in their order, each with the id     *)
(* "sheet_" and its position among the data rows; the fetch does not run   *)
(* again, so the table is replaced at most once, and no handler of the     *)
(* page changes it.                                                        *)
(***************************************************************************)
StatedRowId(position) ==
    CASE position = 0 -> "sheet_0"
      [] position = 1 -> "sheet_1"
      [] position = 2 -> "sheet_2"

ValidUpTo(rows, i) == Cardinality({k \in 1..i : IsValidRow(rows[k])})

IsParsedFrom(table, rows) ==
    /\ Len(table) = ValidUpTo(rows, Len(rows))
    /\ \A i \in DOMAIN rows :
          IsValidRow(rows[i]) =>
              table[ValidUpTo(rows, i)]
                  = [id |-> StatedRowId(i - 1), factor |-> rows[i].factor]

C18_TableReplacedOnceByFetch ==
    [][ /\ materialDB' # materialDB =>
              /\ FetchEnds
              /\ materialDB = INITIAL_MATERIAL_DB
              /\ response'.status = "text"
              /\ \E i \in DOMAIN response'.rows : IsValidRow(response'.rows[i])
              /\ IsParsedFrom(materialDB', response'.rows)
        /\ fetchPc = "done" => fetchPc' = "done"
      ]_vars

\* the table was replaced by the one valid row of the response, and the
\* material row was deleted and a transport row added afterwards
C18_Witness ==
    /\ fetchPc = "done"
    /\ response = Delivered(<<BadRow, GoodRow>>)
    /\ materialDB = << [id |-> "sheet_1", factor |-> Rat(5, 2)] >>
    /\ hasActiveProduct
    /\ Len(activeProduct.materials) = 0
    /\ Len(activeProduct.upstreamTransport) = 1

(***************************************************************************)
(* C19.  The result is a function of the fields of the active product and  *)
(* of the material table alone, whatever the other products, contracts,    *)
(* modal state and loading flags are; and a deletion carried out on a      *)
(* product that is not the active one leaves the result as it was.         *)
(***************************************************************************)
ResultOfInputs ==
    calculation = IF hasActiveProduct
                  THEN Calculate(TRUE, activeProduct, materialDB)
                  ELSE NoProductResult

\* the step is the onConfirm of deleteProduct for a product of a contract
\* that is not the active one
DeletesOtherProduct ==
    /\ confirmConfig.isOpen
    /\ confirmConfig.kind = "product"
    /\ lastOp'.op = "confirmDeleteProduct"
    /\ confirmConfig.contractId # activeContractId

C19_ResultIsStateless ==
    /\ []ResultOfInputs
    /\ [][DeletesOtherProduct => calculation' = calculation]_vars

(***************************************************************************)
(* C20.  The contract list is never empty; a deletion requested with one   *)
(* contract in the list opens no confirmation and leaves the list and the  *)
(* active ids as they were.                                                *)
(***************************************************************************)
DeletionRefused ==
    /\ UNCHANGED <<contracts, activeContractId, activeProductId>>
    /\ ~confirmConfig'.isOpen

C20_ContractListNeverEmpty ==
    /\ [](Len(contracts) >= 1)
    /\ [][(Len(contracts) = 1 /\ \E c \in ContractIds : DeleteContract(c))
             => DeletionRefused]_vars

(***************************************************************************)
(* C21.  A deletion takes effect only when confirmed: the request opens    *)
(* the modal and changes neither the contracts nor the active ids; cancel  *)
(* closes the modal and changes neither; confirm closes the modal and      *)
(* removes the one contract, the one product or the one material row that  *)
(* was requested (for a material, with the transport entries that          *)
(* referred to it), leaving every other contract and product as it was.    *)
(***************************************************************************)
RequestStep == ~confirmConfig.isOpen /\ confirmConfig'.isOpen

\* the modal closes in a step that is not an onConfirm: the cancel button
CancelStep ==
    confirmConfig.isOpen /\ ~confirmConfig'.isOpen /\ lastOp'.op \notin Recorded

ConfirmStep == confirmConfig.isOpen /\ lastOp'.op \in Recorded

OneContractRemoved ==
    \E i \in DOMAIN contracts :
        /\ contracts[i].id = confirmConfig.contractId
        /\ contracts' = RemoveAt(contracts, i)

OneProductRemoved ==
    \E i \in DOMAIN contracts : \E j \in DOMAIN contracts[i].products :
        /\ contracts[i].id = confirmConfig.contractId
        /\ contracts[i].products[j].id = confirmConfig.productId
        /\ contracts' = [contracts EXCEPT ![i].products = RemoveAt(@, j)]

OneMaterialRemoved ==
    \E i \in DOMAIN contracts : \E j \in DOMAIN contracts[i].products :
        /\ contracts[i].id = activeContractId
        /\ contracts[i].products[j].id = activeProductId
        /\ confirmConfig.materialIndex \in DOMAIN contracts[i].products[j].materials
        /\ contracts' =
              [contracts EXCEPT ![i].products[j] =
                  [@ EXCEPT
                     !.materials = RemoveAt(@, confirmConfig.materialIndex),
                     !.upstreamTransport =
                         SelectSeq(@, LAMBDA t :
                                        t.materialId # confirmConfig.materialId)]]

RequestedDeletionApplied ==
    CASE confirmConfig.kind = "contract" -> OneContractRemoved
      [] confirmConfig.kind = "product"  -> OneProductRemoved
      [] confirmConfig.kind = "material" -> OneMaterialRemoved
      [] OTHER -> FALSE

C21_DeletionOnlyWhenConfirmed ==
    [][ /\ RequestStep =>
              UNCHANGED <<contracts, activeContractId, activeProductId>>
        /\ CancelStep =>
              UNCHANGED <<contracts, activeContractId, activeProductId>>
        /\ ConfirmStep =>
              /\ ~confirmConfig'.isOpen
              /\ RequestedDeletionApplied
      ]_vars

(***************************************************************************)
(* C22.  activeContractId is always the id of a contract of the list;      *)
(* confirming the deletion of the active contract makes the first          *)
(* remaining contract active and clears the active product, and            *)
(* confirming the deletion of another contract leaves activeContractId     *)
(* as it was.                                                              *)
(***************************************************************************)
ActiveContractListed == activeContractId \in ContractIds

ContractDeletionConfirmed ==
    confirmConfig.isOpen /\ lastOp'.op = "confirmDeleteContract"

C22_ActiveContractExists ==
    /\ []ActiveContractListed
    /\ [][ContractDeletionConfirmed =>
              IF confirmConfig.contractId = activeContractId
              THEN /\ contracts' # <<>>
                   /\ activeContractId' = contracts'[1].id
                   /\ activeProductId' = NullId
              ELSE activeContractId' = activeContractId]_vars

(***************************************************************************)
(* C23.  Whenever activeProductId is not null it is the id of a product of *)
(* the active contract.                                                    *)
(***************************************************************************)
C23_ActiveProductListed ==
    activeProductId # NullId => hasActiveProduct

(***************************************************************************)
(* C24.  A field edit (updateProduct, updateNested) changes one named      *)
(* field of the active product of the active contract and nothing else in  *)
(* the contract list: every other product and contract, and every other    *)
(* field of the edited product, stay as they were.                         *)
(***************************************************************************)
SameShape(cs, ds) ==
    /\ Len(cs) = Len(ds)
    /\ \A i \in DOMAIN cs : Len(cs[i].products) = Len(ds[i].products)

\* a step of updateProduct or updateNested that changed something: the
\* contract list differs, with the same contracts and products in it, and
\* the step is neither the mount effect nor an onConfirm
EditStep ==
    /\ contracts' # contracts
    /\ SameShape(contracts, contracts')
    /\ fetchPc' = fetchPc
    /\ lastOp'.op \notin Recorded

\* q is p with one field replaced; in the two nested records, with one of
\* their fields replaced
OneFieldChanged(p, q) ==
    \E f \in DOMAIN p :
        /\ q = [p EXCEPT ![f] = q[f]]
        /\ f \in {"manufacturing", "downstreamTransport"} =>
              \E g \in DOMAIN p[f] : q[f] = [p[f] EXCEPT ![g] = q[f][g]]

C24_EditChangesOnlyActiveProduct ==
    [][EditStep =>
          /\ hasActiveProduct
          /\ LET i == ActiveContractIndex(contracts, activeContractId)
                 j == ActiveProductIndex(contracts, activeContractId, activeProductId)
             IN  /\ contracts' =
                        [contracts EXCEPT ![i].products[j] = contracts'[i].products[j]]
                 /\ OneFieldChanged(contracts[i].products[j],
                                    contracts'[i].products[j])]_vars

(***************************************************************************)
(* C25.  addProduct(c) appends one new product to contract c: year 2024,   *)
(* override off, one blank material row taken from the table, no upstream  *)
(* transport, mode perUnit with totalOutput 1000, downstream vehicle t1.   *)
(* The other contracts and the products c already had stay as they were,   *)
(* c becomes the active contract and the new product the active product,   *)
(* and the total calculated for it is 0.                                   *)
(***************************************************************************)
\* a step that added a product to a contract of the list
AddProductStep ==
    /\ Len(contracts') = Len(contracts)
    /\ SidebarProducts(contracts') > SidebarProducts(contracts)
    /\ fetchPc' = fetchPc

IsBlankProduct(p) ==
    /\ p.year = 2024
    /\ p.hasFullData = FALSE
    /\ Len(p.materials) = 1
    /\ p.materials[1].useDb = TRUE
    /\ p.materials[1].factorId = ""
    /\ p.materials[1].weight = "0"
    /\ p.upstreamTransport = <<>>
    /\ p.manufacturing.mode = "perUnit"
    /\ p.manufacturing.totalOutput = "1000"
    /\ p.downstreamTransport.vehicleId = "t1"

C25_AddProductAppendsOne ==
    [][AddProductStep =>
          \E i \in DOMAIN contracts :
              LET added == contracts'[i].products[Len(contracts'[i].products)]
              IN  /\ contracts'[i].products # <<>>
                  /\ contracts' =
                         [contracts EXCEPT ![i].products = Append(@, added)]
                  /\ IsBlankProduct(added)
                  /\ activeContractId' = contracts[i].id
                  /\ activeProductId' = added.id
                  /\ HasActiveProduct(contracts', activeContractId', activeProductId')
                  /\ ActiveProductOf(contracts', activeContractId', activeProductId')
                         = added
                  /\ ActiveContractIndex(contracts', activeContractId') = i
                  /\ ActiveProductIndex(contracts', activeContractId', activeProductId')
                         = Len(contracts'[i].products)
                  /\ calculation'.total = Zero]_vars

(***************************************************************************)
(* C26.  The step that ends the fetch changes no product, whatever the     *)
(* user did before it.  Once the table has been replaced, no entry of it   *)
(* has a built-in id (m1, m2, m3), so a material row that takes its factor *)
(* from the table under a built-in id resolves to nothing and adds 0 to A: *)
(* A is what it would be without those rows.                               *)
(***************************************************************************)
BuiltInIds == {INITIAL_MATERIAL_DB[k].id : k \in DOMAIN INITIAL_MATERIAL_DB}

RefersToBuiltIn(m) == m.useDb /\ m.factorId \in BuiltInIds

WithoutBuiltInRows(p) ==
    [p EXCEPT !.materials = SelectSeq(@, LAMBDA m : ~RefersToBuiltIn(m))]

BuiltInsUnresolved ==
    materialDB # INITIAL_MATERIAL_DB =>
        /\ \A k \in DOMAIN materialDB : materialDB[k].id \notin BuiltInIds
        /\ (hasActiveProduct /\ ~activeProduct.hasFullData) =>
               calculation.A
                   = Calculate(TRUE, WithoutBuiltInRows(activeProduct), materialDB).A

C26_ReplacementUnresolvesBuiltIns ==
    /\ []BuiltInsUnresolved
    /\ [][FetchEnds => contracts' = contracts]_vars

\* the table was replaced under a product with 10 kg of m1: A was 67 with
\* the built-in table and is 0 now
C26_Witness ==
    /\ fetchPc = "done"
    /\ materialDB # INITIAL_MATERIAL_DB
    /\ hasActiveProduct
    /\ \E k \in DOMAIN activeProduct.materials :
          /\ RefersToBuiltIn(activeProduct.materials[k])
          /\ activeProduct.materials[k].weight = "10"
    /\ calculation.A = Zero
    /\ Calculate(TRUE, activeProduct, INITIAL_MATERIAL_DB).A = Rat(67, 1)

(***************************************************************************)
(* C27.  The material rows of a product have pairwise distinct ids, so     *)
(* that confirming the deletion of a material removes one material row     *)
(* and the transport entries that referred to it, and no other.            *)
(***************************************************************************)
DistinctIds(rows) ==
    \A j, k \in DOMAIN rows : rows[j].id = rows[k].id => j = k

MaterialIdsDistinct ==
    \A i \in DOMAIN contracts : \A j \in DOMAIN contracts[i].products :
        DistinctIds(contracts[i].products[j].materials)

MaterialDeletionConfirmed ==
    confirmConfig.isOpen /\ lastOp'.op = "confirmDeleteMaterial"

C27_MaterialIdsDistinct ==
    /\ []MaterialIdsDistinct
    /\ [][MaterialDeletionConfirmed => OneMaterialRemoved]_vars

(***************************************************************************)
(* C28.  The weight check shows a material row of the active product as    *)
(* valid exactly when the weights of the transport entries whose           *)
(* materialId is the id of that row add up to at least the weight of the   *)
(* row minus 0.001; an entry whose materialId is unset or is another id    *)
(* counts for no row.                                                      *)
(***************************************************************************)
RECURSIVE SumOfWeights(_)
SumOfWeights(entries) ==
    IF entries = <<>> THEN Zero
    ELSE RAdd(NumberOf(Head(entries).weight), SumOfWeights(Tail(entries)))

\* the entries that refer to the material m
EntriesOf(p, m) == SelectSeq(p.upstreamTransport, LAMBDA t : t.materialId = m.id)

StatedValid(p, m) ==
    RLe(RSub(NumberOf(m.weight), Rat(1, 1000)), SumOfWeights(EntriesOf(p, m)))

C28_WeightCheck ==
    hasActiveProduct =>
        \A k \in DOMAIN activeProduct.materials :
            ShownValid(activeProduct, k)
                <=> StatedValid(activeProduct, activeProduct.materials[k])

(***************************************************************************)
(* C29.  The add-transport button appends one entry with weight 0,         *)
(* distance 0 and vehicle t1, whose materialId is the id of the first      *)
(* material row of the product, or unset when the product has no material  *)
(* row; the entries and the material rows the product had stay as they     *)
(* were, and B is the same after the addition as before it.                *)
(***************************************************************************)
\* a step that added a transport row to the active product
AddTransportStep ==
    /\ hasActiveProduct
    /\ HasActiveProduct(contracts', activeContractId', activeProductId')
    /\ Len(ActiveProductOf(contracts', activeContractId',
                           activeProductId').upstreamTransport)
           = Len(activeProduct.upstreamTransport) + 1

IsBlankEntry(t, materials) ==
    /\ t.weight = "0"
    /\ t.distance = "0"
    /\ t.vehicleId = "t1"
    /\ t.materialId = IF materials = <<>> THEN EmptyString ELSE materials[1].id

C29_AddTransportAppendsBlank ==
    [][AddTransportStep =>
          LET q == ActiveProductOf(contracts', activeContractId', activeProductId')
              added == q.upstreamTransport[Len(q.upstreamTransport)]
          IN  /\ q = [activeProduct EXCEPT
                         !.upstreamTransport = Append(@, added)]
              /\ IsBlankEntry(added, activeProduct.materials)
              /\ calculation'.B = calculation.B]_vars

\* a second entry was added, unset, to a product without material rows
\* whose first entry carries 6 kg over 100 km
C29_Witness ==
    /\ hasActiveProduct
    /\ activeProduct.materials = <<>>
    /\ Len(activeProduct.upstreamTransport) = 2
    /\ activeProduct.upstreamTransport[1].weight = "6"
    /\ activeProduct.upstreamTransport[1].distance = "100"
    /\ IsBlankEntry(activeProduct.upstreamTransport[2], <<>>)
    /\ calculation.B # Zero

(***************************************************************************)
(* C30.  The initialisation at mount leaves the first contract with one    *)
(* product (one blank material row, no upstream transport, override off),  *)
(* which is the active product of the active contract.  It runs once: the  *)
(* page is never mounted again, and once it is mounted a product is added  *)
(* only by the add-product buttons of the page, also when the first        *)
(* contract has become empty.                                              *)
(***************************************************************************)
\* the step in which the mount effects run
MountStep == fetchPc # "pending" /\ fetchPc' = "pending"

C30_InitialisedOnce ==
    [][ /\ MountStep =>
              /\ fetchPc = "unmounted"
              /\ Len(contracts'[1].products) = 1
              /\ IsBlankProduct(contracts'[1].products[1])
              /\ HasActiveProduct(contracts', activeContractId', activeProductId')
              /\ ActiveProductOf(contracts', activeContractId', activeProductId')
                     = contracts'[1].products[1]
        /\ (fetchPc # "unmounted"
              /\ SidebarProducts(contracts') > SidebarProducts(contracts)) =>
              /\ PageReady
              /\ fetchPc' = fetchPc
      ]_vars

\* the product of the first contract was deleted after the mount and the
\* contract is empty
C30_Witness ==
    /\ fetchPc # "unmounted"
    /\ lastOp.op = "confirmDeleteProduct"
    /\ Len(contracts) >= 1
    /\ contracts[1].id = FirstContractId
    /\ contracts[1].products = <<>>

====
